---------------------------- MODULE Spec2Model ----------------------------
(***************************************************************************)
(* Lead qualification pipeline of the planning-application lead finder:    *)
(* the scoring engine (app.py score_lead), the source adapters and their   *)
(* sample-data fallback, the search run of app.py (fetch, score, filter,   *)
(* rank) and the dedup/upsert store.                                       *)
(*                                                                         *)
(* Python text is modelled by TLA+ strings; str.lower() is Lower, which    *)
(* gives the lowercased text as the sequence of its characters, and        *)
(* "kw in text" is Contains on such sequences.  A Python value that may    *)
(* be None is a record [kind, s]: Str(s) for a string, None for None.  A   *)
(* dict is a function from its keys.                                       *)
(***************************************************************************)
EXTENDS Integers, Sequences, FiniteSets, TLC

VARIABLES
    application,        \* score_lead: the dict passed in
    result,             \* score_lead: what the call returned
    adapter,            \* adapter call: which adapter is called
    responses,          \* adapter call: what each network call answers
    returned,           \* adapter call: what the adapter returned
    pc,                 \* search run: position in the script
    selected_councils,  \* search run: the multiselect's list
    min_score,          \* search run: the slider's value
    refused_only,       \* search run: the checkbox
    idx,                \* search run: fetch loop index
    all_applications,   \* search run: leads fetched so far
    fallback,           \* search run: councils whose fetch fell back to samples
    pos,                \* search run: score/filter loop index
    leads,              \* search run: the leads list
    store,              \* tracking store: rows
    op                  \* tracking store: the last operation

vars == <<application, result, adapter, responses, returned, pc, selected_councils,
          min_score, refused_only, idx, all_applications, fallback, pos,
          leads, store, op>>

scoreVars == <<application, result>>
adapterVars == <<adapter, responses, returned>>
runVars == <<pc, selected_councils, min_score, refused_only, idx,
             all_applications, fallback, pos, leads>>
storeVars == <<store, op>>

----------------------------------------------------------------------------
(* Python values and text *)

Str(s) == [kind |-> "str", s |-> s]
None == [kind |-> "none", s |-> ""]

\* str(x): the text of a string, "None" for None
pyStr(v) == IF v.kind = "none" THEN "None" ELSE v.s

\* d.get(k, default)
pyGet(d, k, default) == IF k \in DOMAIN d THEN d[k] ELSE default

\* the characters of a text, in order
Chars(text) == SubSeq([i \in 1..Len(text) |-> SubSeq(text, i, i)], 1, Len(text))

\* kw in text, both given by their characters
Contains(chars, kw) ==
    \E i \in 1..(Len(chars) - Len(kw) + 1) :
        \A j \in 1..Len(kw) : chars[i + j - 1] = kw[j]

\* a keyword list, each keyword given by its characters
Words(keywords) == {Chars(k) : k \in keywords}

\* the lower-case letter of each upper-case letter
LowerTable ==
    "A" :> "a" @@ "B" :> "b" @@ "C" :> "c" @@ "D" :> "d" @@ "E" :> "e" @@ "F" :> "f" @@
    "G" :> "g" @@ "H" :> "h" @@ "I" :> "i" @@ "J" :> "j" @@ "K" :> "k" @@ "L" :> "l" @@
    "M" :> "m" @@ "N" :> "n" @@ "O" :> "o" @@ "P" :> "p" @@ "Q" :> "q" @@ "R" :> "r" @@
    "S" :> "s" @@ "T" :> "t" @@ "U" :> "u" @@ "V" :> "v" @@ "W" :> "w" @@ "X" :> "x" @@
    "Y" :> "y" @@ "Z" :> "z"

LowerChar(c) == IF c \in DOMAIN LowerTable THEN LowerTable[c] ELSE c

\* text.lower(), given by its characters
Lower(text) ==
    SubSeq([i \in 1..Len(text) |-> LowerChar(SubSeq(text, i, i))], 1, Len(text))

----------------------------------------------------------------------------
(* Scoring engine: app.py score_lead *)

applicant_text(app) ==
    Lower(pyStr(pyGet(app, "applicant_name",
                pyGet(app, "applicant",
                pyGet(app, "agent_name", Str(""))))))

description_text(app) ==
    Lower(pyStr(pyGet(app, "development_description",
                pyGet(app, "proposal",
                pyGet(app, "description", Str(""))))))

StatusTextCaseSensitive(app) ==
    Chars(pyStr(pyGet(app, "status_description",
                pyGet(app, "status",
                pyGet(app, "decision", Str(""))))))

status_text(app) ==
    Lower(pyStr(pyGet(app, "status_description",
                pyGet(app, "status",
                pyGet(app, "decision", Str(""))))))

company_keywords ==
    Words({"ltd", "limited", "architects", "developments", "properties",
           "consulting", "design", "builders", "construction", "estates"})
commercial_keywords ==
    Words({"retail", "commercial", "mixed use", "office", "shop",
           "restaurant", "cafe", "bar", "pub", "store"})
refused_keywords ==
    Words({"refused", "reject", "dismissed"})
pending_keywords ==
    Words({"pending", "awaiting", "incomplete", "further information"})
change_keywords ==
    Words({"prior approval", "change of use"})
hmo_keywords ==
    Words({"hmo", "house in multiple occupation"})
extension_keywords ==
    Words({"extension", "basement", "loft conversion", "rear extension",
           "side extension", "single storey", "two storey extension"})
private_keywords ==
    Words({"mr ", "mrs ", "miss ", "ms ", "dr "})
domestic_keywords ==
    Words({"conservatory", "porch", "garage", "shed", "fence", "outbuilding"})

AnyIn(keywords, text) == \E word \in keywords : Contains(text, word)

RuleIds == 1..9

\* the n-th conditional of score_lead, on the three lowercased texts
Fired(n, applicant, description, status) ==
    CASE n = 1 -> AnyIn(company_keywords, applicant)
      [] n = 2 -> AnyIn(commercial_keywords, description)
      [] n = 3 -> AnyIn(refused_keywords, status)
      [] n = 4 -> AnyIn(pending_keywords, status)
      [] n = 5 -> AnyIn(change_keywords, description)
      [] n = 6 -> AnyIn(hmo_keywords, description)
      [] n = 7 -> AnyIn(extension_keywords, description)
      [] n = 8 -> AnyIn(private_keywords, applicant)
      [] n = 9 -> AnyIn(domestic_keywords, description)

\* score += / score -= of the n-th conditional
Weight == <<3, 3, 2, 1, 2, -5, -5, -2, -3>>

\* reasons.append(...) of the n-th conditional (without the leading glyph)
Tag == <<"Company applicant", "Commercial/Retail project",
         "Refused (appeal opportunity)", "Needs additional info",
         "Prior Approval/Change of Use", "HMO (excluded)",
         "Extension/Basement (excluded)", "Private homeowner",
         "Small domestic work">>

PriorityOffByOne(score) ==
    IF score > 6 THEN "A - HIGH PRIORITY"
    ELSE IF score > 3 THEN "B - MEDIUM"
    ELSE "C - LOW"

\* the PRIORITY LABEL block
Priority(score) ==
    IF score >= 6 THEN "A - HIGH PRIORITY"
    ELSE IF score >= 3 THEN "B - MEDIUM"
    ELSE "C - LOW"

PriorityColor(score) ==
    IF score >= 6 THEN "green"
    ELSE IF score >= 3 THEN "orange"
    ELSE "red"

\* a conditional whose negative branch assigns the weight (score = -5)
\* where the code subtracts it (score -= 5)
RuleStepAssigning(n, applicant, description, status, acc) ==
    IF Fired(n, applicant, description, status)
    THEN [score |-> IF Weight[n] < 0 THEN Weight[n] ELSE acc.score + Weight[n],
          reasons |-> Append(acc.reasons, Tag[n])]
    ELSE acc

\* a conditional that adds its weight once for every keyword found, where
\* the code adds it once however many are found
RuleStepPerKeyword(n, applicant, description, status, acc) ==
    LET keywords ==
            CASE n = 1 -> company_keywords [] n = 2 -> commercial_keywords
              [] n = 3 -> refused_keywords [] n = 4 -> pending_keywords
              [] n = 5 -> change_keywords  [] n = 6 -> hmo_keywords
              [] n = 7 -> extension_keywords [] n = 8 -> private_keywords
              [] n = 9 -> domestic_keywords
        text == IF n \in {1, 8} THEN applicant
                ELSE IF n \in {3, 4} THEN status ELSE description
        found == Cardinality({word \in keywords : Contains(text, word)})
    IN  IF found > 0
        THEN [score |-> acc.score + found * Weight[n],
              reasons |-> Append(acc.reasons, Tag[n])]
        ELSE acc

\* the n-th conditional: if <condition>: score += w; reasons.append(tag)
RuleStep(n, applicant, description, status, acc) ==
    IF Fired(n, applicant, description, status)
    THEN [score |-> acc.score + Weight[n],
          reasons |-> Append(acc.reasons, Tag[n])]
    ELSE acc

\* the conditionals run top to bottom, each adding its weight and its reason
RECURSIVE RunRules(_, _, _, _, _, _)
RunRules(n, applicant, description, status, score, reasons) ==
    IF n > 9 THEN [score |-> score, reasons |-> reasons]
    ELSE LET acc == RuleStep(n, applicant, description, status,
                             [score |-> score, reasons |-> reasons])
         IN  RunRules(n + 1, applicant, description, status,
                      acc.score, acc.reasons)

score_lead(app) ==
    LET r == RunRules(1, applicant_text(app), description_text(app),
                      status_text(app), 0, <<>>)
    IN  [score |-> r.score, priority |-> Priority(r.score),
         priority_color |-> PriorityColor(r.score), reasons |-> r.reasons]

----------------------------------------------------------------------------
(* Scoring of the weekly digest: email_digest.py score_lead *)

digest_applicant_text(app) == Lower(pyStr(pyGet(app, "applicant", Str(""))))
digest_description_text(app) == Lower(pyStr(pyGet(app, "description", Str(""))))
digest_status_text(app) == Lower(pyStr(pyGet(app, "status", Str(""))))

digest_company_keywords ==
    Words({"ltd", "limited", "architects", "developments", "properties"})
digest_commercial_keywords ==
    Words({"retail", "commercial", "mixed use", "office", "shop"})
digest_refused_keywords ==
    Words({"refused", "reject"})
digest_hmo_keywords ==
    Words({"hmo"})
digest_extension_keywords ==
    Words({"extension", "basement", "loft"})

DigestRuleIds == 1..5

\* the n-th conditional of the digest's score_lead
DigestFired(n, applicant, description, status) ==
    CASE n = 1 -> AnyIn(digest_company_keywords, applicant)
      [] n = 2 -> AnyIn(digest_commercial_keywords, description)
      [] n = 3 -> AnyIn(digest_refused_keywords, status)
      [] n = 4 -> AnyIn(digest_hmo_keywords, description)
      [] n = 5 -> AnyIn(digest_extension_keywords, description)

DigestWeight == <<3, 3, 2, -5, -5>>

DigestTag == <<"Company applicant", "Commercial project",
               "Refused (appeal opportunity)", "HMO", "Extension/Basement">>

\* if score >= 5 / elif score >= 2 / else
DigestPriority(score) ==
    IF score >= 5 THEN "A - HIGH PRIORITY"
    ELSE IF score >= 2 THEN "B - MEDIUM"
    ELSE "C - LOW"

RECURSIVE DigestRunRules(_, _, _, _, _, _)
DigestRunRules(n, applicant, description, status, score, reasons) ==
    IF n > 5 THEN [score |-> score, reasons |-> reasons]
    ELSE IF DigestFired(n, applicant, description, status)
         THEN DigestRunRules(n + 1, applicant, description, status,
                             score + DigestWeight[n], Append(reasons, DigestTag[n]))
         ELSE DigestRunRules(n + 1, applicant, description, status, score, reasons)

digest_score_lead(app) ==
    LET r == DigestRunRules(1, digest_applicant_text(app),
                            digest_description_text(app),
                            digest_status_text(app), 0, <<>>)
    IN  [score |-> r.score, priority |-> DigestPriority(r.score),
         reasons |-> r.reasons]

----------------------------------------------------------------------------
(* Source adapters: app.py fetch_london .. generate_sample_data, and       *)
(* email_digest.py fetch_weekly_leads                                      *)
(*                                                                         *)
(* A response is what one requests.get call answers: a transport exception *)
(* or an HTTP status with a body.  The body is not JSON ("invalid"), JSON  *)
(* that is no object ("array"), or an object holding its records under one *)
(* top-level key; the records are a list of items or null.  An item is a   *)
(* dict (top), optionally with a nested "fields" entry (a dict or null),   *)
(* or a scalar.                                                            *)

Dict(d) == [kind |-> "dict", has_fields |-> "absent", top |-> d, fields |-> <<>>]
Wrapped(d) == [kind |-> "dict", has_fields |-> "dict", top |-> <<>>, fields |-> d]
NullFields(d) == [kind |-> "dict", has_fields |-> "null", top |-> d, fields |-> <<>>]
Scalar == [kind |-> "scalar", has_fields |-> "absent", top |-> <<>>, fields |-> <<>>]

TransportError ==
    [net |-> "exception", status |-> 0, json |-> "invalid", key |-> "",
     records |-> "null", items |-> <<>>]
Http(status, json, key, records, items) ==
    [net |-> "http", status |-> status, json |-> json, key |-> key,
     records |-> records, items |-> items]
Ok(key, items) == Http(200, "object", key, "list", items)

\* the outcome of a block of code: it raised, or it produced a list
Raised == [raised |-> TRUE, apps |-> <<>>]
Value(apps) == [raised |-> FALSE, apps |-> apps]

Min(a, b) == IF a < b THEN a ELSE b

\* items[:100]
First100(items) == SubSeq(items, 1, Min(100, Len(items)))

\* the upper-case letter of each lower-case letter
UpperTable ==
    "a" :> "A" @@ "b" :> "B" @@ "c" :> "C" @@ "d" :> "D" @@ "e" :> "E" @@ "f" :> "F" @@
    "g" :> "G" @@ "h" :> "H" @@ "i" :> "I" @@ "j" :> "J" @@ "k" :> "K" @@ "l" :> "L" @@
    "m" :> "M" @@ "n" :> "N" @@ "o" :> "O" @@ "p" :> "P" @@ "q" :> "Q" @@ "r" :> "R" @@
    "s" :> "S" @@ "t" :> "T" @@ "u" :> "U" @@ "v" :> "V" @@ "w" :> "W" @@ "x" :> "X" @@
    "y" :> "Y" @@ "z" :> "Z"

UpperChar(c) == IF c \in DOMAIN UpperTable THEN UpperTable[c] ELSE c

RECURSIVE UpperFrom(_, _)
UpperFrom(text, i) ==
    IF i > Len(text) THEN ""
    ELSE UpperChar(SubSeq(text, i, i)) \o UpperFrom(text, i + 1)

\* text.upper()
Upper(text) == UpperFrom(text, 1)

\* The clock is an input of generate_sample_data; base_date's year is written
\* YYYY and the day base_date + idx is written base+<idx>d.
sample_applications ==
    <<[applicant_name |-> "ABC Architects Ltd",
       description |-> "Change of use from retail (Class A1) to mixed use retail and residential",
       status_description |-> "Refused",
       address |-> "123 High Street"],
      [applicant_name |-> "XYZ Developments Limited",
       description |-> "Prior approval for change of use from office to residential",
       status_description |-> "Pending decision",
       address |-> "45 Market Place"],
      [applicant_name |-> "Smith Design Consultants",
       description |-> "Change of use of commercial premises to restaurant with outdoor seating",
       status_description |-> "Refused",
       address |-> "78 Station Road"]>>

Digit == <<"0", "1", "2">>

generate_sample_data(council_name) ==
    [i \in 1..Len(sample_applications) |->
        LET app == sample_applications[i]
            n == i - 1
        IN  [council |-> Str(council_name),
             reference |-> Str(Upper(SubSeq(council_name, 1, Min(3, Len(council_name))))
                               \o "/YYYY/100" \o Digit[n + 1]),
             address |-> Str(app.address \o ", " \o council_name),
             description |-> Str(app.description),
             applicant_name |-> Str(app.applicant_name),
             status_description |-> Str(app.status_description),
             date_received |-> Str("base+" \o Digit[n + 1] \o "d"),
             link |-> Str("#")]]

LondonLead(app) ==
    [council |-> Str("London"),
     reference |-> pyGet(app, "planning_application_reference",
                         pyGet(app, "reference", Str("N/A"))),
     address |-> pyGet(app, "site_address", pyGet(app, "address", Str("N/A"))),
     description |-> pyGet(app, "development_description",
                           pyGet(app, "proposal", Str("N/A"))),
     applicant_name |-> pyGet(app, "applicant_name", Str("N/A")),
     status_description |-> pyGet(app, "status_description",
                                  pyGet(app, "status", Str("N/A"))),
     date_received |-> pyGet(app, "date_received",
                             pyGet(app, "received_date", Str("N/A"))),
     link |-> Str("https://planningdata.london.gov.uk/planning-application/"
                  \o pyStr(pyGet(app, "planning_application_reference",
                                 pyGet(app, "reference", Str("")))))]

CamdenLead(fields) ==
    [council |-> Str("Camden"),
     reference |-> pyGet(fields, "application_number", Str("N/A")),
     address |-> pyGet(fields, "site_address", Str("N/A")),
     description |-> pyGet(fields, "proposal", Str("N/A")),
     applicant_name |-> pyGet(fields, "applicant_name", Str("N/A")),
     status_description |-> pyGet(fields, "status", Str("N/A")),
     date_received |-> pyGet(fields, "date_received", Str("N/A")),
     link |-> pyGet(fields, "url", Str("#"))]

BristolLead(fields) ==
    [council |-> Str("Bristol"),
     reference |-> pyGet(fields, "applicationnumber", Str("N/A")),
     address |-> pyGet(fields, "siteaddress", Str("N/A")),
     description |-> pyGet(fields, "proposaldescription", Str("N/A")),
     applicant_name |-> pyGet(fields, "applicantname", Str("N/A")),
     status_description |-> pyGet(fields, "status", Str("N/A")),
     date_received |-> pyGet(fields, "dateregistered", Str("N/A")),
     link |-> Str("#")]

BirminghamLead(fields) ==
    [council |-> Str("Birmingham"),
     reference |-> pyGet(fields, "application_number", Str("N/A")),
     address |-> pyGet(fields, "location", Str("N/A")),
     description |-> pyGet(fields, "proposal", Str("N/A")),
     applicant_name |-> pyGet(fields, "applicant", Str("N/A")),
     status_description |-> pyGet(fields, "status", Str("N/A")),
     date_received |-> pyGet(fields, "received_date", Str("N/A")),
     link |-> Str("#")]

WeeklyLead(app) ==
    [reference |-> pyGet(app, "planning_application_reference", Str("N/A")),
     address |-> pyGet(app, "site_address", Str("N/A")),
     description |-> pyGet(app, "development_description", Str("N/A")),
     applicant |-> pyGet(app, "applicant_name", Str("N/A")),
     status |-> pyGet(app, "status_description", Str("N/A")),
     date |-> pyGet(app, "date_received", Str("N/A")),
     link |-> Str("https://planningdata.london.gov.uk/planning-application/"
                  \o pyStr(pyGet(app, "planning_application_reference", Str(""))))]

\* record.get('fields', record)
FieldsOf(record) == IF record.has_fields = "absent" THEN record.top ELSE record.fields

\* the body of fetch_london's try block for one url; status is "skip" when
\* the status code is not 200 and the block falls through without returning
LondonTry(r) ==
    IF r.net = "exception" THEN Raised
    ELSE IF r.status # 200 THEN [raised |-> FALSE, skip |-> TRUE, apps |-> <<>>]
    ELSE IF r.json # "object" THEN Raised
    ELSE IF r.key \notin {"data", "records"} THEN Value(<<>>)
    ELSE IF r.records = "null" THEN Raised
    ELSE IF \E i \in 1..Len(r.items) : r.items[i].kind # "dict" THEN Raised
    ELSE Value([i \in 1..Len(r.items) |-> LondonLead(r.items[i].top)])

LondonReturns(t) == ~t.raised /\ "skip" \notin DOMAIN t

\* for url in urls_to_try: try ... except: continue; then the sample data
RECURSIVE LondonLoop(_)
LondonLoop(rs) ==
    IF rs = <<>> THEN [raised |-> FALSE, sample |-> TRUE,
                       apps |-> generate_sample_data("London")]
    ELSE LET t == LondonTry(Head(rs))
         IN  IF LondonReturns(t)
             THEN [raised |-> FALSE, sample |-> FALSE, apps |-> t.apps]
             ELSE LondonLoop(Tail(rs))

fetch_london(rs) == LondonLoop(rs)

\* the lead dict the adapter of council_name appends for a record's fields
ResultsLead(council_name, fields) ==
    CASE council_name = "Camden" -> CamdenLead(fields)
      [] council_name = "Bristol" -> BristolLead(fields)
      [] council_name = "Birmingham" -> BirminghamLead(fields)

\* the try block shared in shape by fetch_camden, fetch_bristol and
\* fetch_birmingham: no status check, records under 'results'
ResultsTry(r, council_name) ==
    IF r.net = "exception" THEN Raised
    ELSE IF r.json # "object" THEN Raised
    ELSE IF r.key # "results" THEN Value(<<>>)
    ELSE IF r.records = "null" THEN Raised
    ELSE LET items == First100(r.items)
         IN  IF \E i \in 1..Len(items) :
                    items[i].kind # "dict" \/ items[i].has_fields = "null"
             THEN Raised
             ELSE Value([i \in 1..Len(items) |-> ResultsLead(council_name, FieldsOf(items[i]))])

\* a handler that lets the error out of the adapter
ExceptNothing(t, council_name) ==
    [raised |-> t.raised, sample |-> FALSE, apps |-> t.apps]

\* try: ... return applications / except: return generate_sample_data(name)
ExceptSample(t, council_name) ==
    IF t.raised
    THEN [raised |-> FALSE, sample |-> TRUE, apps |-> generate_sample_data(council_name)]
    ELSE [raised |-> FALSE, sample |-> FALSE, apps |-> t.apps]

fetch_camden(rs) == ExceptSample(ResultsTry(rs[1], "Camden"), "Camden")
fetch_bristol(rs) == ExceptSample(ResultsTry(rs[1], "Bristol"), "Bristol")
fetch_birmingham(rs) == ExceptSample(ResultsTry(rs[1], "Birmingham"), "Birmingham")

\* email_digest.py: raise_for_status, records under 'data', [] on any error
WeeklyTry(r) ==
    IF r.net = "exception" THEN Raised
    ELSE IF r.status # 200 THEN Raised
    ELSE IF r.json # "object" THEN Raised
    ELSE IF r.key # "data" THEN Value(<<>>)
    ELSE IF r.records = "null" THEN Raised
    ELSE IF \E i \in 1..Len(r.items) : r.items[i].kind # "dict" THEN Raised
    ELSE Value([i \in 1..Len(r.items) |-> WeeklyLead(r.items[i].top)])

fetch_weekly_leads(rs) ==
    LET t == WeeklyTry(rs[1])
    IN  IF t.raised THEN [raised |-> FALSE, sample |-> FALSE, apps |-> <<>>]
        ELSE [raised |-> FALSE, sample |-> FALSE, apps |-> t.apps]

\* fetch_functions, and the digest's single source
Adapters == {"London (All Boroughs)", "Camden", "Bristol", "Birmingham", "Weekly"}

Fetch(name, rs) ==
    CASE name = "London (All Boroughs)" -> fetch_london(rs)
      [] name = "Camden" -> fetch_camden(rs)
      [] name = "Bristol" -> fetch_bristol(rs)
      [] name = "Birmingham" -> fetch_birmingham(rs)
      [] name = "Weekly" -> fetch_weekly_leads(rs)

\* how many network calls an adapter may make
Calls(name) == IF name = "London (All Boroughs)" THEN 2 ELSE 1

----------------------------------------------------------------------------
(* Idle values of the parts a specification does not exercise *)

NoResult == [called |-> FALSE, score |-> 0, priority |-> "", priority_color |-> "",
             reasons |-> <<>>]
NoApplication == [description |-> Str("")]
NotReturned == [done |-> FALSE, raised |-> FALSE, sample |-> FALSE, apps |-> <<>>]

ScoreIdle == application = NoApplication /\ result = NoResult
AdapterIdle == adapter = "" /\ responses = <<>> /\ returned = NotReturned
RunIdle ==
    /\ pc = "welcome" /\ selected_councils = <<>> /\ min_score = 3
    /\ refused_only = TRUE /\ idx = 0 /\ all_applications = <<>>
    /\ fallback = {} /\ pos = 0 /\ leads = <<>>
StoreIdle == store = <<>> /\ op = [kind |-> "none"]

----------------------------------------------------------------------------
(* Scoring calls on canonical leads *)

Applicants == {"ABC Architects Ltd", "Mr J Smith", "Dr Jones Design", "Jane Doe", "N/A"}
Descriptions == {"change of use from retail to restaurant",
                 "Single storey rear extension",
                 "Single storey dwelling",
                 "HMO with rear extension and garage",
                 "Erection of garden shed",
                 "Prior approval for new dwelling",
                 "Prior approval for change of use from office to shop",
                 "New office",
                 "Replacement windows",
                 "N/A"}
Statuses == {"Refused", "Pending decision", "Approved", "Appeal dismissed",
             "Refused - awaiting further information", "N/A"}

Lead(applicant, description, status) ==
    [applicant_name |-> Str(applicant), description |-> Str(description),
     status_description |-> Str(status)]

ScoreInit ==
    /\ \E a \in Applicants, d \in Descriptions, s \in Statuses :
          application = Lead(a, d, s)
    /\ result = NoResult
    /\ AdapterIdle /\ RunIdle /\ StoreIdle

ScoreCall ==
    /\ ~result.called
    /\ result' = [called |-> TRUE] @@ score_lead(application)
    /\ UNCHANGED <<application, adapterVars, runVars, storeVars>>

ScoreNext == ScoreCall

SpecScore == ScoreInit /\ [][ScoreNext]_vars

----------------------------------------------------------------------------
(* Adapter calls on the responses a source can give *)

MaxFields == 2

RawKeys(name) ==
    CASE name = "London (All Boroughs)" ->
            {"planning_application_reference", "reference", "site_address", "address",
             "development_description", "proposal", "applicant_name",
             "status_description", "status", "date_received", "received_date"}
      [] name = "Camden" ->
            {"application_number", "site_address", "proposal", "applicant_name",
             "status", "date_received", "url"}
      [] name = "Bristol" ->
            {"applicationnumber", "siteaddress", "proposaldescription",
             "applicantname", "status", "dateregistered"}
      [] name = "Birmingham" ->
            {"application_number", "location", "proposal", "applicant", "status",
             "received_date"}
      [] name = "Weekly" ->
            {"planning_application_reference", "site_address",
             "development_description", "applicant_name", "status_description",
             "date_received"}

\* a raw field is present with null, with the empty string or with text
RawValues == {None, Str(""), Str("a")}

\* raw records carrying at most MaxFields of the fields the adapter reads
RawDicts(name) ==
    UNION {[K -> RawValues] :
             K \in {S \in SUBSET RawKeys(name) : Cardinality(S) <= MaxFields}}

\* the top-level key the adapter reads its records from
RecordKeys(name) ==
    CASE name = "London (All Boroughs)" -> {"data", "records"}
      [] name = "Weekly" -> {"data"}
      [] OTHER -> {"results"}

ProbesFields(name) == name \in {"Camden", "Bristol", "Birmingham"}

\* a 200 response holding one raw record
RecordResponses(name) ==
    {Ok(k, <<Dict(d)>>) : k \in RecordKeys(name), d \in RawDicts(name)}
    \cup (IF ProbesFields(name)
          THEN {Ok(k, <<Wrapped(d)>>) : k \in RecordKeys(name), d \in RawDicts(name)}
          ELSE {})

\* raw records as the sources publish them
LondonItems ==
    <<Dict([planning_application_reference |-> Str("24/0001"),
            site_address |-> Str("1 High Street"),
            development_description |-> Str("Replacement windows"),
            applicant_name |-> Str("ABC Architects Ltd"),
            status_description |-> Str("Refused"),
            date_received |-> Str("2024-01-02")]),
      Dict([reference |-> Str("24/0002"),
            address |-> Str("2 Mill Lane"),
            proposal |-> Str("New office"),
            applicant_name |-> Str("Oak Properties"),
            status |-> Str("REFUSED"),
            received_date |-> Str("2024-01-03")])>>
LondonNullItem ==
    Dict([reference |-> Str("24/0003"),
          proposal |-> Str("New office"),
          applicant_name |-> None,
          status_description |-> None])
CamdenItems ==
    <<Wrapped([application_number |-> Str("2024/0101/P"),
               site_address |-> Str("3 Camden Road"),
               proposal |-> Str("Replacement signage"),
               applicant_name |-> Str("XYZ Developments Limited"),
               status |-> Str("Appeal dismissed"),
               date_received |-> Str("2024-01-04"),
               url |-> Str("https://camden.example/2024/0101/P")]),
      Dict([application_number |-> Str("2024/0102/P"),
            site_address |-> Str("4 Chalk Farm Road"),
            proposal |-> Str("Replacement windows"),
            applicant_name |-> Str("Jane Doe"),
            status |-> Str("Refused"),
            date_received |-> Str("2024-01-05")])>>
BristolItems ==
    <<Dict([applicationnumber |-> Str("24/00011/F"),
            siteaddress |-> Str("5 Park Street"),
            proposaldescription |-> Str("Single storey rear extension"),
            applicantname |-> Str("Mr J Smith"),
            status |-> Str("Refused"),
            dateregistered |-> Str("2024-01-06")])>>
BirminghamItems ==
    <<Dict([application_number |-> Str("2024/00021/PA"),
            location |-> Str("6 Broad Street"),
            proposal |-> Str("Change of use from shop to cafe"),
            applicant |-> Str("Smith Builders Ltd"),
            status |-> Str("Pending decision"),
            received_date |-> Str("2024-01-07")])>>
WeeklyItems ==
    <<Dict([planning_application_reference |-> Str("24/0001"),
            site_address |-> Str("1 High Street"),
            development_description |-> Str("New office"),
            applicant_name |-> Str("ABC Architects Ltd"),
            status_description |-> Str("Refused"),
            date_received |-> Str("2024-01-02")])>>

PublishedItems(name) ==
    CASE name = "London (All Boroughs)" -> LondonItems
      [] name = "Camden" -> CamdenItems
      [] name = "Bristol" -> BristolItems
      [] name = "Birmingham" -> BirminghamItems
      [] name = "Weekly" -> WeeklyItems

PrimaryKey(name) == CHOOSE k \in RecordKeys(name) : k # "records"

\* responses whose network call failed: transport, status, parse, shape
FailedResponses(name) ==
    {TransportError,
     Http(500, "invalid", "", "null", <<>>),
     Http(500, "object", PrimaryKey(name), "list", PublishedItems(name)),
     Http(500, "object", "error", "list", <<>>),
     Http(200, "invalid", "", "null", <<>>),
     Http(200, "array", "", "null", <<>>),
     Http(200, "object", PrimaryKey(name), "null", <<>>),
     Ok(PrimaryKey(name), <<Scalar>>),
     Ok(PrimaryKey(name), PublishedItems(name) \o <<Scalar>>),
     Ok(PrimaryKey(name), <<NullFields(<<>>)>>)}

\* responses of a working source
ServedResponses(name) ==
    {Ok(PrimaryKey(name), PublishedItems(name)),
     Ok(PrimaryKey(name), <<>>),
     Ok("other", PublishedItems(name))}
    \cup (IF name = "London (All Boroughs)"
          THEN {Ok("records", <<LondonNullItem, LondonItems[2]>>)}
          ELSE {})

CannedResponses(name) == FailedResponses(name) \cup ServedResponses(name)

\* what the adapter's network calls answer, one response per call
ResponseSeqs(name) ==
    IF Calls(name) = 2
    THEN {<<r, TransportError>> : r \in RecordResponses(name)}
         \cup {<<r1, r2>> : r1 \in CannedResponses(name), r2 \in CannedResponses(name)}
    ELSE {<<r>> : r \in RecordResponses(name) \cup CannedResponses(name)}

AdapterInit ==
    /\ adapter \in Adapters
    /\ responses \in ResponseSeqs(adapter)
    /\ returned = NotReturned
    /\ ScoreIdle /\ RunIdle /\ StoreIdle

AdapterCall ==
    /\ ~returned.done
    /\ returned' = [done |-> TRUE] @@ Fetch(adapter, responses)
    /\ UNCHANGED <<adapter, responses, scoreVars, runVars, storeVars>>

AdapterNext == AdapterCall

SpecAdapter == AdapterInit /\ [][AdapterNext]_vars

----------------------------------------------------------------------------
(* The search run of app.py: sidebar inputs, fetch loop, score and filter  *)
(* loop, sort                                                              *)

MaxSelected == 2

\* COUNCILS: name -> enabled
COUNCILS ==
    [n \in {"London (All Boroughs)", "Camden", "Bristol", "Leeds", "Birmingham",
            "Manchester", "Liverpool", "Newcastle"} |->
        n \in {"London (All Boroughs)", "Camden", "Bristol", "Leeds", "Birmingham"}]

enabled_councils == {n \in DOMAIN COUNCILS : COUNCILS[n]}

\* the keys of fetch_functions
fetch_functions == {"London (All Boroughs)", "Camden", "Bristol", "Birmingham"}

\* what the multiselect can hold: distinct enabled councils, in selection order
Selections ==
    {s \in UNION {[1..n -> enabled_councils] : n \in 0..MaxSelected} :
        \A i, j \in DOMAIN s : i # j => s[i] # s[j]}

\* values of the minimum-score slider (its range is -5..10)
MinScores == {2, 6}

\* what a call of a council's adapter can return, over the responses its
\* network calls can give
FetchOutcomes ==
    [council \in fetch_functions |->
        {Fetch(council, rs) : rs \in [1..Calls(council) -> CannedResponses(council)]}]

\* the leads the adapters can put into all_applications
FetchableLeads ==
    UNION {{r.apps[i] : i \in DOMAIN r.apps} :
             r \in UNION {FetchOutcomes[council] : council \in fetch_functions}}

\* score_lead(app) for each of those leads (score_lead is a pure function)
scored == [app \in FetchableLeads |-> score_lead(app)]

RECURSIVE SpacesToPlusFrom(_, _)
SpacesToPlusFrom(text, i) ==
    IF i > Len(text) THEN ""
    ELSE (IF SubSeq(text, i, i) = " " THEN "+" ELSE SubSeq(text, i, i))
         \o SpacesToPlusFrom(text, i + 1)

\* text.replace(' ', '+')
SpacesToPlus(text) == SpacesToPlusFrom(text, 1)

\* ' | '.join(reasons)
RECURSIVE Join(_)
Join(reasons) ==
    IF reasons = <<>> THEN ""
    ELSE IF Len(reasons) = 1 THEN reasons[1]
    ELSE reasons[1] \o " | " \o Join(Tail(reasons))

\* a filter that also drops a score equal to the minimum
BelowOrAtMinimum(score, minimum) == score <= minimum

\* if score < min_score: continue
BelowMinimum(score, minimum) == score < minimum

\* one pass of the score-and-filter loop body over app: "skip" (continue),
\* "raise" (an exception leaves the loop) or "lead" with the dict appended
LoopBody(app, minimum, refused) ==
    LET s == scored[app]
        status == app["status_description"]
        applicant == pyGet(app, "applicant_name", Str("N/A"))
    IN  IF BelowMinimum(s.score, minimum) THEN [out |-> "skip"]
        ELSE IF refused /\ status.kind = "none" THEN [out |-> "raise"]
        ELSE IF refused /\ ~Contains(Lower(status.s), Chars("refused")) THEN [out |-> "skip"]
        ELSE IF applicant.kind = "none" THEN [out |-> "raise"]
        ELSE [out |-> "lead",
              lead |-> [score |-> s.score,
                        priority |-> s.priority,
                        color |-> s.priority_color,
                        council |-> app["council"],
                        reference |-> app["reference"],
                        address |-> app["address"],
                        applicant |-> applicant,
                        description |-> app["description"],
                        status |-> app["status_description"],
                        date |-> app["date_received"],
                        reasons |-> Join(s.reasons),
                        app_link |-> app["link"],
                        research_link |->
                            "https://www.google.com/search?q="
                            \o SpacesToPlus(applicant.s)
                            \o "+UK+contact+architect+developer"]]

\* for app in all_applications: ... leads.append(...)
RECURSIVE ScoreAndFilter(_, _, _, _)
ScoreAndFilter(apps, minimum, refused, acc) ==
    IF apps = <<>> THEN [raised |-> FALSE, leads |-> acc]
    ELSE LET b == LoopBody(Head(apps), minimum, refused)
         IN  CASE b.out = "raise" -> [raised |-> TRUE, leads |-> acc]
               [] b.out = "skip" -> ScoreAndFilter(Tail(apps), minimum, refused, acc)
               [] b.out = "lead" ->
                    ScoreAndFilter(Tail(apps), minimum, refused, Append(acc, b.lead))

\* where x goes in a list already sorted by score descending: after every
\* element whose score is at least x's (equal scores keep their order)
RECURSIVE InsertStable(_, _)
InsertStable(sorted, x) ==
    IF sorted = <<>> THEN <<x>>
    ELSE IF Head(sorted).score >= x.score
         THEN <<Head(sorted)>> \o InsertStable(Tail(sorted), x)
         ELSE <<x>> \o sorted

\* before every element whose score is at most x's (equal scores swap)
RECURSIVE InsertReversing(_, _)
InsertReversing(sorted, x) ==
    IF sorted = <<>> THEN <<x>>
    ELSE IF Head(sorted).score > x.score
         THEN <<Head(sorted)>> \o InsertReversing(Tail(sorted), x)
         ELSE <<x>> \o sorted

RECURSIVE SortReversingTies(_)
SortReversingTies(list) ==
    IF list = <<>> THEN <<>>
    ELSE InsertReversing(SortReversingTies(SubSeq(list, 1, Len(list) - 1)),
                         list[Len(list)])

\* leads.sort(key=lambda x: x['score'], reverse=True): stable, descending
RECURSIVE SortByScoreDesc(_)
SortByScoreDesc(list) ==
    IF list = <<>> THEN <<>>
    ELSE InsertStable(SortByScoreDesc(SubSeq(list, 1, Len(list) - 1)),
                      list[Len(list)])

\* the council name an adapter writes into its leads
CouncilField(name) == IF name = "London (All Boroughs)" THEN "London" ELSE name

RunInit ==
    /\ pc = "welcome"
    /\ selected_councils \in Selections
    /\ min_score \in MinScores
    /\ refused_only \in BOOLEAN
    /\ idx = 0 /\ all_applications = <<>> /\ fallback = {} /\ pos = 0 /\ leads = <<>>
    /\ ScoreIdle /\ AdapterIdle /\ StoreIdle

\* the Search button with nothing selected
SearchNothingSelected ==
    /\ pc = "welcome"
    /\ selected_councils = <<>>
    /\ pc' = "warning"
    /\ UNCHANGED <<selected_councils, min_score, refused_only, idx,
                   all_applications, fallback, pos, leads>>
    /\ UNCHANGED <<scoreVars, adapterVars, storeVars>>

\* the Search button: all_applications = []
Search ==
    /\ pc = "welcome"
    /\ selected_councils # <<>>
    /\ pc' = "fetching"
    /\ idx' = 0
    /\ all_applications' = <<>>
    /\ UNCHANGED <<selected_councils, min_score, refused_only, fallback, pos, leads>>
    /\ UNCHANGED <<scoreVars, adapterVars, storeVars>>

\* one iteration of the fetch loop with a council fetch_functions knows
FetchCouncil ==
    /\ pc = "fetching"
    /\ idx < Len(selected_councils)
    /\ LET council == selected_councils[idx + 1]
       IN  /\ council \in fetch_functions
           /\ \E r \in FetchOutcomes[council] :
                IF r.raised
                THEN /\ pc' = "crashed"
                     /\ UNCHANGED <<all_applications, fallback>>
                ELSE /\ pc' = pc
                     /\ all_applications' = all_applications \o r.apps
                     /\ fallback' = IF r.sample
                                    THEN fallback \cup {CouncilField(council)}
                                    ELSE fallback
    /\ idx' = idx + 1
    /\ UNCHANGED <<selected_councils, min_score, refused_only, pos, leads>>
    /\ UNCHANGED <<scoreVars, adapterVars, storeVars>>

\* one iteration of the fetch loop with a council that has no fetch function
FetchSkipped ==
    /\ pc = "fetching"
    /\ idx < Len(selected_councils)
    /\ selected_councils[idx + 1] \notin fetch_functions
    /\ idx' = idx + 1
    /\ UNCHANGED <<pc, selected_councils, min_score, refused_only,
                   all_applications, fallback, pos, leads>>
    /\ UNCHANGED <<scoreVars, adapterVars, storeVars>>

\* after the fetch loop: if not all_applications
NoApplications ==
    /\ pc = "fetching"
    /\ idx = Len(selected_councils)
    /\ all_applications = <<>>
    /\ pc' = "no_applications"
    /\ UNCHANGED <<selected_councils, min_score, refused_only, idx,
                   all_applications, fallback, pos, leads>>
    /\ UNCHANGED <<scoreVars, adapterVars, storeVars>>

\* the score-and-filter loop
ScoreFilter ==
    /\ pc = "fetching"
    /\ idx = Len(selected_councils)
    /\ all_applications # <<>>
    /\ LET r == ScoreAndFilter(all_applications, min_score, refused_only, <<>>)
       IN  /\ leads' = r.leads
           /\ pc' = IF r.raised THEN "crashed" ELSE "filtered"
    /\ pos' = Len(all_applications)
    /\ UNCHANGED <<selected_councils, min_score, refused_only, idx,
                   all_applications, fallback>>
    /\ UNCHANGED <<scoreVars, adapterVars, storeVars>>

\* leads.sort(...), then the results or the "no leads match" notice
Rank ==
    /\ pc = "filtered"
    /\ leads' = SortByScoreDesc(leads)
    /\ pc' = IF leads = <<>> THEN "no_leads" ELSE "results"
    /\ UNCHANGED <<selected_councils, min_score, refused_only, idx,
                   all_applications, fallback, pos>>
    /\ UNCHANGED <<scoreVars, adapterVars, storeVars>>

Next ==
    \/ SearchNothingSelected
    \/ Search
    \/ FetchCouncil
    \/ FetchSkipped
    \/ NoApplications
    \/ ScoreFilter
    \/ Rank

Spec == RunInit /\ [][Next]_vars

----------------------------------------------------------------------------
(* Weekly digest job: email_digest.py main *)

MaxBatch == 6

\* raw records the datahub can serve in a week; the digest scores them
\* 8, 3 (with a null description), 2 and -5
WeeklyPool ==
    {Dict([planning_application_reference |-> Str("24/0101"),
           development_description |-> Str("New office"),
           applicant_name |-> Str("ABC Architects Ltd"),
           status_description |-> Str("Refused")]),
     Dict([planning_application_reference |-> Str("24/0102"),
           development_description |-> None,
           applicant_name |-> Str("XYZ Developments Limited"),
           status_description |-> Str("Approved")]),
     Dict([planning_application_reference |-> Str("24/0103"),
           development_description |-> Str("Replacement windows"),
           applicant_name |-> Str("Jane Doe"),
           status_description |-> Str("Refused")]),
     Dict([planning_application_reference |-> Str("24/0104"),
           development_description |-> Str("Loft conversion"),
           applicant_name |-> Str("Jane Doe"),
           status_description |-> Str("Approved")])}

\* the week's records: up to MaxBatch of them, in any order, repeats allowed
WeeklyBatches == UNION {[1..n -> WeeklyPool] : n \in 1..MaxBatch}

\* what the digest's one network call can answer
DigestResponses ==
    {<<r>> : r \in CannedResponses("Weekly")}
    \cup {<<Ok("data", batch)>> : batch \in WeeklyBatches}

\* the applications fetch_weekly_leads can return
DigestFetchable ==
    {WeeklyLead(item.top) : item \in WeeklyPool}
    \cup UNION {{fetch_weekly_leads(<<r>>).apps[i] :
                    i \in DOMAIN fetch_weekly_leads(<<r>>).apps} :
                 r \in CannedResponses("Weekly")}

\* score_lead(app) for each of them (score_lead is a pure function)
digest_scored == [app \in DigestFetchable |-> digest_score_lead(app)]

\* for app in applications: if score >= 2: scored_leads.append({**app, ...})
RECURSIVE DigestScoreAndFilter(_, _)
DigestScoreAndFilter(apps, acc) ==
    IF apps = <<>> THEN acc
    ELSE LET s == digest_scored[Head(apps)]
         IN  IF s.score >= 2
             THEN DigestScoreAndFilter(Tail(apps),
                      Append(acc, Head(apps) @@ [score |-> s.score,
                                                  priority |-> s.priority,
                                                  reasons |-> Join(s.reasons)]))
             ELSE DigestScoreAndFilter(Tail(apps), acc)

\* a slice that keeps one lead too many
TopSix(list) == SubSeq(list, 1, Min(6, Len(list)))

\* scored_leads[:5]
TopFive(list) == SubSeq(list, 1, Min(5, Len(list)))

\* generate_email_html slices lead['description'][:200] of every lead
HtmlRaises(top) == \E i \in DOMAIN top : top[i]["description"].kind = "none"

DigestInit ==
    /\ pc = "digest"
    /\ adapter = "Weekly"
    /\ responses \in DigestResponses
    /\ returned = NotReturned
    /\ selected_councils = <<>> /\ min_score = 2 /\ refused_only = FALSE
    /\ idx = 0 /\ all_applications = <<>> /\ fallback = {} /\ pos = 0
    /\ leads = <<>>
    /\ ScoreIdle /\ StoreIdle

\* applications = fetch_weekly_leads()
DigestFetch ==
    /\ pc = "digest"
    /\ returned' = [done |-> TRUE] @@ fetch_weekly_leads(responses)
    /\ all_applications' = returned'.apps
    /\ pc' = "fetched"
    /\ UNCHANGED <<adapter, responses, selected_councils, min_score, refused_only,
                   idx, fallback, pos, leads, scoreVars, storeVars>>

\* if not applications: return
DigestNoApplications ==
    /\ pc = "fetched"
    /\ all_applications = <<>>
    /\ pc' = "no_applications"
    /\ UNCHANGED <<adapterVars, selected_councils, min_score, refused_only, idx,
                   all_applications, fallback, pos, leads, scoreVars, storeVars>>

\* score, keep score >= 2, sort, top_5; if not top_5: return
DigestRank ==
    /\ pc = "fetched"
    /\ all_applications # <<>>
    /\ LET top_5 == TopFive(SortByScoreDesc(
                         DigestScoreAndFilter(all_applications, <<>>)))
       IN  /\ leads' = top_5
           /\ pc' = IF top_5 = <<>> THEN "no_qualified" ELSE "sending"
    /\ UNCHANGED <<adapterVars, selected_councils, min_score, refused_only, idx,
                   all_applications, fallback, pos, scoreVars, storeVars>>

\* generate_email_html(top_5), then send_email, which reports an SMTP
\* failure by returning False
DigestSend ==
    /\ pc = "sending"
    /\ IF HtmlRaises(leads)
       THEN pc' = "crashed"
       ELSE pc' \in {"sent", "send_failed"}
    /\ UNCHANGED <<adapterVars, selected_councils, min_score, refused_only, idx,
                   all_applications, fallback, pos, leads, scoreVars, storeVars>>

DigestNext == DigestFetch \/ DigestNoApplications \/ DigestRank \/ DigestSend

SpecDigest == DigestInit /\ [][DigestNext]_vars

----------------------------------------------------------------------------
(* Dedup/upsert tracking store (specification section 4.3; its code is not *)
(* among the source files)                                                 *)

MaxRows == 3

WorkflowStatuses == {"New", "Contacted", "Won"}

StoreKeys == {<<"London", "24/0001">>, <<"London", "24/0002">>, <<"Camden", "24/0001">>}

\* a scored lead as a pipeline run hands it over: a first sighting, and the
\* same reference rescored by a later run
Sighting(key, score, status) ==
    [source_id |-> key[1], reference |-> key[2], score |-> score,
     priority |-> Priority(score), reasons |-> "score " \o ToString(score),
     description |-> "New office", status |-> status,
     date |-> "2024-01-02", link |-> "#"]

ScoredLeads ==
    {Sighting(key, 5, "Pending decision") : key \in StoreKeys}
    \cup {Sighting(key, 8, "Refused") : key \in StoreKeys}

\* lookup by linear scan: the index of the row with the key, 0 if none
RECURSIVE FindRow(_, _, _, _)
FindRow(rows, source_id, reference, i) ==
    IF i > Len(rows) THEN 0
    ELSE IF rows[i].source_id = source_id /\ rows[i].reference = reference THEN i
    ELSE FindRow(rows, source_id, reference, i + 1)

\* an upsert that always appends a fresh row
UpsertAppending(rows, lead) ==
    Append(rows, lead @@ [workflow_status |-> "New"])

\* insert with workflow_status "New", or refresh the pipeline-owned fields
upsert(rows, lead) ==
    LET i == FindRow(rows, lead.source_id, lead.reference, 1)
    IN  IF i = 0
        THEN Append(rows, lead @@ [workflow_status |-> "New"])
        ELSE [rows EXCEPT ![i] = lead @@ [workflow_status |-> rows[i].workflow_status]]

StoreInit ==
    /\ store = <<>>
    /\ op = [kind |-> "none"]
    /\ ScoreIdle /\ AdapterIdle /\ RunIdle

\* a pipeline run merges one of its leads into the store
Upsert ==
    /\ \E lead \in ScoredLeads :
          LET i == FindRow(store, lead.source_id, lead.reference, 1)
          IN  /\ Len(upsert(store, lead)) <= MaxRows
              /\ store' = upsert(store, lead)
              /\ op' = [kind |-> "upsert", lead |-> lead, existed |-> i # 0,
                        workflow_before |-> IF i = 0 THEN "" ELSE store[i].workflow_status]
    /\ UNCHANGED <<scoreVars, adapterVars, runVars>>

\* the store is unreachable: upsert degrades to a no-op with a warning
UpsertUnreachable ==
    /\ \E lead \in ScoredLeads : op' = [kind |-> "warning", lead |-> lead]
    /\ UNCHANGED store
    /\ UNCHANGED <<scoreVars, adapterVars, runVars>>

\* a stakeholder sets the workflow status of a row
SetWorkflowStatus ==
    /\ \E i \in DOMAIN store, w \in WorkflowStatuses :
          /\ store' = [store EXCEPT ![i].workflow_status = w]
          /\ op' = [kind |-> "edit", row |-> i, workflow_status |-> w]
    /\ UNCHANGED <<scoreVars, adapterVars, runVars>>

StoreNext == Upsert \/ UpsertUnreachable \/ SetWorkflowStatus

SpecStore == StoreInit /\ [][StoreNext]_vars

----------------------------------------------------------------------------
(* Claims about score_lead *)

\* C1: the priority is decided by the total score alone, with exact
\* boundaries: score >= 6 is High, 3..5 is Medium, below 3 is Low.
C1_PriorityTiers ==
    result.called =>
        /\ (result.score >= 6 => result.priority = "A - HIGH PRIORITY")
        /\ (result.score >= 3 /\ result.score <= 5 => result.priority = "B - MEDIUM")
        /\ (result.score < 3 => result.priority = "C - LOW")

\* a call that returned exactly the High boundary
C1_Witness ==
    result.called /\ result.score = 6 /\ result.priority = "A - HIGH PRIORITY"

\* The rubric table of the specification: signal keywords, field and weight.
TableKeywords ==
    <<{"ltd", "limited", "architects", "developments", "properties",
       "consulting", "design", "builders", "construction", "estates"},
      {"retail", "commercial", "mixed use", "office", "shop",
       "restaurant", "cafe", "bar", "pub", "store"},
      {"refused", "reject", "dismissed"},
      {"pending", "awaiting", "incomplete", "further information"},
      {"prior approval", "change of use"},
      {"hmo", "house in multiple occupation"},
      {"extension", "basement", "loft conversion", "rear extension",
       "side extension", "single storey extension", "two storey extension"},
      {"mr ", "mrs ", "miss ", "ms ", "dr "},
      {"conservatory", "porch", "garage", "shed", "fence", "outbuilding"}>>
TableField ==
    <<"applicant", "description", "status", "status", "description",
      "description", "description", "applicant", "description">>
TableWeight == <<3, 3, 2, 1, 2, -5, -5, -2, -3>>

TableText(n, app) ==
    CASE TableField[n] = "applicant" -> Lower(app.applicant_name.s)
      [] TableField[n] = "description" -> Lower(app.description.s)
      [] TableField[n] = "status" -> Lower(app.status_description.s)

TableFired(app) ==
    {n \in 1..9 : \E word \in TableKeywords[n] : Contains(TableText(n, app), Chars(word))}

RECURSIVE TableScore(_, _)
TableScore(fired, n) ==
    IF n = 0 THEN 0
    ELSE (IF n \in fired THEN TableWeight[n] ELSE 0) + TableScore(fired, n - 1)

RECURSIVE TableReasons(_, _)
TableReasons(fired, n) ==
    IF n = 0 THEN <<>>
    ELSE IF n \in fired THEN Append(TableReasons(fired, n - 1), Tag[n])
         ELSE TableReasons(fired, n - 1)

\* C2: the score is the sum of the weights of exactly the rubric-table rules
\* whose predicate holds on the lowercased text, and reasons lists the fired
\* rules' tags in table order.
C2_RubricTable ==
    result.called =>
        /\ result.score = TableScore(TableFired(application), 9)
        /\ result.reasons = TableReasons(TableFired(application), 9)

\* C3: ABC Architects Ltd / change of use from retail to restaurant / Refused
\* scores 10, priority High, with reasons company applicant, commercial
\* project, refused, prior approval/change of use, in that order and no other.
C3_EndToEnd ==
    (result.called /\ application = Lead("ABC Architects Ltd",
                                         "change of use from retail to restaurant",
                                         "Refused")) =>
        /\ result.score = 10
        /\ result.priority = "A - HIGH PRIORITY"
        /\ result.reasons = <<"Company applicant", "Commercial/Retail project",
                              "Refused (appeal opportunity)",
                              "Prior Approval/Change of Use">>

\* the scenario's lead has been scored
C3_Witness ==
    /\ result.called
    /\ application = Lead("ABC Architects Ltd",
                          "change of use from retail to restaurant", "Refused")

\* orders of evaluation of the nine conditionals: the order of the code, its
\* reversal, its rotations and every exchange of two conditionals
Identity == [n \in RuleIds |-> n]
Orders ==
    {Identity, [n \in RuleIds |-> 10 - n]}
    \cup {[n \in RuleIds |-> ((n + k - 1) % 9) + 1] : k \in 1..8}
    \cup {[n \in RuleIds |-> IF n = i THEN j ELSE IF n = j THEN i ELSE n] :
             i \in RuleIds, j \in RuleIds}

\* score_lead with its conditionals evaluated in the given order
RECURSIVE RunRulesIn(_, _, _, _, _, _)
RunRulesIn(order, k, applicant, description, status, acc) ==
    IF k > 9 THEN acc
    ELSE RunRulesIn(order, k + 1, applicant, description, status,
                    RuleStep(order[k], applicant, description, status, acc))

ScoreInOrder(order, app) ==
    RunRulesIn(order, 1, applicant_text(app), description_text(app),
               status_text(app), [score |-> 0, reasons |-> <<>>])

Range(seq) == {seq[i] : i \in DOMAIN seq}

\* C11: evaluating the nine rules in another order gives the same score and
\* priority as score_lead; the reasons are the same ones, possibly in another
\* order.
C11_OrderIndependent ==
    result.called =>
        \A order \in Orders :
            LET r == ScoreInOrder(order, application)
            IN  /\ r.score = result.score
                /\ Priority(r.score) = result.priority
                /\ Range(r.reasons) = Range(result.reasons)
                /\ Len(r.reasons) = Len(result.reasons)

\* a lead firing positive and negative rules, whose reasons come out in
\* another order when the rules are evaluated in reverse
C11_Witness ==
    /\ result.called
    /\ Len(result.reasons) >= 3
    /\ \E i, j \in DOMAIN result.reasons :
          result.reasons[i] = Tag[1] /\ result.reasons[j] = Tag[7]
    /\ LET r == ScoreInOrder([n \in RuleIds |-> 10 - n], application)
       IN  r.reasons # result.reasons /\ r.score = result.score

\* the lead of the pure-scoring run as the digest holds it: the same three
\* texts under the digest's field names
AsDigestLead(app) ==
    [applicant |-> app["applicant_name"], description |-> app["description"],
     status |-> app["status_description"]]

\* C16: on the same applicant, description and status text the app's
\* score_lead and the digest's score_lead return the same score and the same
\* priority tier, the tiers starting at 6 and 3 in both.
C16_SameScoringEngine ==
    result.called =>
        LET d == digest_score_lead(AsDigestLead(application))
        IN  /\ d.score = result.score
            /\ d.priority = result.priority
            /\ d.priority = Priority(d.score)

\* C18: the score of every lead lies between -15 (the four negative rules
\* and no positive one) and 11 (the five positive rules and no negative
\* one), and the priority is one of the three tiers.
C18_ScoreRange ==
    result.called =>
        /\ result.score \in -15..11
        /\ result.priority \in {"A - HIGH PRIORITY", "B - MEDIUM", "C - LOW"}

\* a lead that fires the five positive rules and none of the negative ones
C18_Witness ==
    /\ result.called
    /\ result.score = 11
    /\ result.reasons = <<Tag[1], Tag[2], Tag[3], Tag[4], Tag[5]>>
    /\ result.priority = "A - HIGH PRIORITY"

\* a lead that fires the four negative rules and none of the positive ones
C18_WitnessLowest ==
    /\ result.called
    /\ result.score = -15
    /\ result.reasons = <<Tag[6], Tag[7], Tag[8], Tag[9]>>
    /\ result.priority = "C - LOW"

----------------------------------------------------------------------------
(* Claims about the search run *)

\* what identifies a fetched application, and the lead built from it
AppIdent(app) == <<app["council"], app["reference"], app["address"]>>
LeadIdent(lead) == <<lead.council, lead.reference, lead.address>>

\* the position in fetch order of the application a lead was built from
FetchIndex(lead) ==
    CHOOSE k \in DOMAIN all_applications : AppIdent(all_applications[k]) = LeadIdent(lead)

RunEnded == pc \in {"results", "no_leads"}

\* C4: the ranked list is in descending score order, and leads of equal
\* score keep the order in which they were fetched (selection order of the
\* sources, then record order within a source).
C4_RankedStable ==
    RunEnded =>
        \A i, j \in DOMAIN leads :
            i < j =>
                \/ leads[i].score > leads[j].score
                \/ /\ leads[i].score = leads[j].score
                   /\ FetchIndex(leads[i]) < FetchIndex(leads[j])

\* scores 5, 8, 5, 2 in fetch order came out as 8, first 5, second 5, 2
C4_Witness ==
    /\ pc = "results"
    /\ Len(leads) = 4
    /\ [i \in 1..4 |-> scored[all_applications[i]].score] = <<5, 8, 5, 2>>
    /\ [i \in 1..4 |-> leads[i].score] = <<8, 5, 5, 2>>
    /\ [i \in 1..4 |-> FetchIndex(leads[i])] = <<2, 1, 3, 4>>

\* status contains "refused", case-insensitively
HasRefused(app) ==
    /\ app["status_description"].kind = "str"
    /\ Contains(Lower(app["status_description"].s), Chars("refused"))

Passes(app) ==
    /\ scored[app].score >= min_score
    /\ refused_only => HasRefused(app)

\* C5: the ranked output holds exactly the fetched leads that pass the
\* filters, each once: score >= min_score and, when refused_only is set,
\* a status containing "refused" (case-insensitively).
C5_ExactlyTheFiltered ==
    RunEnded =>
        /\ \A k \in DOMAIN all_applications :
              Passes(all_applications[k])
              <=> \E i \in DOMAIN leads :
                     LeadIdent(leads[i]) = AppIdent(all_applications[k])
        /\ \A i \in DOMAIN leads :
              \E k \in DOMAIN all_applications :
                 LeadIdent(leads[i]) = AppIdent(all_applications[k])
        /\ \A i, j \in DOMAIN leads :
              i # j => LeadIdent(leads[i]) # LeadIdent(leads[j])

\* a run with refused_only set that dropped one lead for its score, dropped
\* another for its status alone and kept one whose status is "REFUSED"
C5_Witness ==
    /\ pc = "results"
    /\ refused_only
    /\ \E k \in DOMAIN all_applications :
          scored[all_applications[k]].score < min_score
    /\ \E k \in DOMAIN all_applications :
          /\ scored[all_applications[k]].score >= min_score
          /\ ~HasRefused(all_applications[k])
    /\ \E i \in DOMAIN leads : leads[i].status = Str("REFUSED")

\* C7: every lead returned in place of a failed network call carries a
\* synthetic marker, and the marker is still on the lead in the ranked output.
C7_FallbackMarked ==
    /\ \A k \in DOMAIN all_applications :
          all_applications[k]["council"].s \in fallback =>
              /\ "is_synthetic" \in DOMAIN all_applications[k]
              /\ all_applications[k]["is_synthetic"] = TRUE
    /\ RunEnded =>
          \A i \in DOMAIN leads :
              leads[i].council.s \in fallback =>
                  /\ "is_synthetic" \in DOMAIN leads[i]
                  /\ leads[i]["is_synthetic"] = TRUE

\* C12: no record of a fetched batch, whatever its field values (a null
\* status while refused_only is set, a null applicant), makes the
\* score-and-filter loop raise; the loop goes on to the remaining records.
C12_RecordIsolation ==
    /\ pc # "crashed"
    /\ pc \in {"filtered", "results", "no_leads"} => pos = Len(all_applications)

\* C14: each pass of the fetch loop calls the adapter of the selected
\* council, whichever enabled council it is, and appends what the adapter
\* returned to the combined list; no selected council is passed over.
C14_EverySelectedFetched ==
    [][(pc = "fetching" /\ idx' = idx + 1) =>
          LET council == selected_councils[idx + 1]
          IN  /\ council \in enabled_councils
              /\ council \in fetch_functions
              /\ \E r \in FetchOutcomes[council] :
                    all_applications' = all_applications \o r.apps]_vars

----------------------------------------------------------------------------
(* Claims about the adapters *)

\* C6: whatever its network call does (transport exception, non-200 status,
\* unparseable or unexpectedly shaped body), an adapter of app.py returns a
\* sequence of leads and lets no error out.
C6_AdapterAlwaysReturns ==
    (returned.done /\ adapter \in fetch_functions) =>
        /\ ~returned.raised
        /\ DOMAIN returned.apps = 1..Len(returned.apps)

\* Camden answered with a body that is not JSON and the adapter returned
\* its three leads all the same
C6_Witness ==
    /\ returned.done
    /\ adapter = "Camden"
    /\ responses[1].net = "http" /\ responses[1].json = "invalid"
    /\ ~returned.raised
    /\ Len(returned.apps) = 3

\* the text fields of the leads an adapter builds
TextFields(name) ==
    IF name = "Weekly"
    THEN {"reference", "address", "description", "applicant", "status", "date"}
    ELSE {"reference", "address", "description", "applicant_name",
          "status_description", "date_received"}

\* C8: every lead an adapter builds has each of its text fields populated
\* with a string, never null and never absent.
C8_TextFieldsAreStrings ==
    returned.done =>
        \A i \in DOMAIN returned.apps :
            \A f \in TextFields(adapter) :
                /\ f \in DOMAIN returned.apps[i]
                /\ returned.apps[i][f].kind = "str"

\* the raw field names fetch_london tries for each attribute, in order
Chains ==
    [reference |-> <<"planning_application_reference", "reference">>,
     address |-> <<"site_address", "address">>,
     description |-> <<"development_description", "proposal">>,
     applicant_name |-> <<"applicant_name">>,
     status_description |-> <<"status_description", "status">>,
     date_received |-> <<"date_received", "received_date">>]

NonEmpty(raw, k) == k \in DOMAIN raw /\ raw[k].kind = "str" /\ raw[k].s # ""

\* the value of the first field of the chain that is non-empty, else "N/A"
FirstNonEmpty(raw, chain) ==
    IF \E i \in DOMAIN chain : NonEmpty(raw, chain[i])
    THEN raw[chain[CHOOSE i \in DOMAIN chain :
                      /\ NonEmpty(raw, chain[i])
                      /\ \A j \in 1..(i - 1) : ~NonEmpty(raw, chain[j])]]
    ELSE Str("N/A")

\* the London source answered its first call with one raw record
LondonBuiltOne ==
    /\ returned.done
    /\ adapter = "London (All Boroughs)"
    /\ responses[1] \in RecordResponses(adapter)
    /\ Len(returned.apps) = 1

\* C13: each attribute the adapter resolves through a chain of raw field
\* names gets the value of the first field of the chain that is non-empty
\* (an empty or null field is passed over), and "N/A" only when none is.
C13_FirstNonEmptyWins ==
    LondonBuiltOne =>
        \A attr \in DOMAIN Chains :
            returned.apps[1][attr]
                = FirstNonEmpty(responses[1].items[1].top, Chains[attr])

----------------------------------------------------------------------------
(* Claims about the tracking store *)

RowsWithKey(source_id, reference) ==
    {i \in DOMAIN store : store[i].source_id = source_id /\ store[i].reference = reference}

PipelineOwned == {"score", "priority", "reasons", "description", "status", "date", "link"}

\* C9: upsert of an absent (source_id, reference) creates a record with
\* workflow_status "New"; upsert of a present key refreshes the pipeline-owned
\* fields and leaves workflow_status as it was; no two records share a key.
C9_UpsertKeepsWorkflowStatus ==
    /\ \A i, j \in DOMAIN store :
          (store[i].source_id = store[j].source_id
           /\ store[i].reference = store[j].reference) => i = j
    /\ op.kind = "upsert" =>
          \E i \in RowsWithKey(op.lead.source_id, op.lead.reference) :
              /\ \A f \in PipelineOwned : store[i][f] = op.lead[f]
              /\ store[i].workflow_status =
                    (IF op.existed THEN op.workflow_before ELSE "New")

\* a record marked "Contacted" was re-upserted with a fresh score and status
C9_Witness ==
    /\ op.kind = "upsert"
    /\ op.existed
    /\ op.workflow_before = "Contacted"
    /\ op.lead.score = 8
    /\ \E i \in RowsWithKey(op.lead.source_id, op.lead.reference) :
          store[i].workflow_status = "Contacted" /\ store[i].score = 8
    /\ Len(store) = 3

\* C15: when a run ends with its ranked list, the store holds a record for
\* every lead of the list (each was passed to upsert before the list was
\* returned).
C15_SurvivorsPersisted ==
    pc = "results" =>
        \A i \in DOMAIN leads :
            \E k \in DOMAIN store :
                /\ store[k].source_id = leads[i].council.s
                /\ store[k].reference = leads[i].reference.s

----------------------------------------------------------------------------
(* Claims about the weekly digest *)

Qualifying == {k \in DOMAIN all_applications :
                 digest_scored[all_applications[k]].score >= 2}

FetchFailed == WeeklyTry(responses[1]).raised

\* C17: an email that is sent carries at most 5 leads, each of score >= 2,
\* in descending score order, and every fetched lead scoring strictly more
\* than a sent one is itself among the sent; when the fetch failed or no
\* lead reaches score 2, no email is sent.
C17_DigestTopFive ==
    /\ pc = "sent" =>
          /\ Len(leads) <= 5
          /\ \A i \in DOMAIN leads : leads[i]["score"] >= 2
          /\ \A i, j \in DOMAIN leads :
                i < j => leads[i]["score"] >= leads[j]["score"]
          /\ \A k \in DOMAIN all_applications :
                LET v == digest_scored[all_applications[k]].score
                IN  v > leads[Len(leads)]["score"] =>
                        Cardinality({i \in DOMAIN leads : leads[i]["score"] = v})
                        = Cardinality({n \in DOMAIN all_applications :
                              digest_scored[all_applications[n]].score = v})
    /\ (returned.done /\ (FetchFailed \/ Qualifying = {})) =>
          pc \notin {"sending", "sent", "send_failed"}

\* six leads of the week reached score 2; the email went out with five of
\* them, the 8 first, and a lead of score 2 was left out
C17_Witness ==
    /\ pc = "sent"
    /\ Cardinality(Qualifying) = 6
    /\ Len(leads) = 5
    /\ leads[1]["score"] = 8
    /\ leads[5]["score"] = 2
    /\ digest_scored[all_applications[1]].score = 2

\* the fetch failed and the job ended without sending
C17_WitnessFetchFailed ==
    pc = "no_applications" /\ FetchFailed

=============================================================================
